---- MODULE Spec2Model ----
(***************************************************************************)
(* A model of src/san/train.py: the training loop of train() with its      *)
(* reporting window and best-checkpoint selection, the save/load hand-over *)
(* of main(), the inference and submission writer (predict, submission),   *)
(* and the embedding alignment of build_sswe_vectors().                    *)
(*                                                                         *)
(* Numbers are integers.  A float that the code obtains by a division is   *)
(* kept as the pair <<numerator, denominator>>; validation F1 values are   *)
(* the levels 0..MaxF1 (level k stands for k / MaxF1).                     *)
(***************************************************************************)
EXTENDS Integers, Sequences, FiniteSets, TLC

(***************************************************************************)
(* Bounds of the model.                                                    *)
(***************************************************************************)
MaxEpoch == 2
MaxBatches == 3
MaxEvery == 2
MaxF1 == 2
MaxTest == 2
MaxCols == 5
MaxLogit == 1
MaxVocab == 2
MaxSrc == 2

\* Python's None.
NoneVal == "None"

\* The reference that is None (no object).
NoneRef == -1

\* Storage address of the live parameter tensors of the model.
ModelAddr == 0

\* Values a parameter state can take (the weights, as opaque contents).
ParamVals == {"theta_a", "theta_b"}

\* The parameter state the model is constructed with.
InitialParams == "theta_a"

\* The parameter tensors of the model, in model.parameters() order.
ModelParams == <<"p1", "p2">>

\* Values of args.norm_limit.
NormLimits == {1}

\* What one training batch yields: its size, the number of correct
\* predictions, its loss, and the magnitude of the gradient that backward()
\* leaves on each trainable parameter.
BatchResults ==
  { [n |-> 2, ok |-> 1, loss |-> 1, g |-> 0],
    [n |-> 1, ok |-> 1, loss |-> 3, g |-> 2] }

VARIABLES
  pc,            \* position in main()/train()
  args,          \* the configuration object
  nbatch,        \* number of batches data.train_iter yields per epoch
  requires_grad, \* requires_grad flag of each parameter tensor
  parameters,    \* what is left of the filter iterator `parameters`
  opt_params,    \* the parameters held by the optimizer's param group
  training,      \* model.training (TRUE: training mode, FALSE: evaluation)
  heap,          \* address -> contents of a parameter state
  next_addr,     \* next fresh address for a copy
  grads,         \* p -> squared gradient magnitude <<num, den>> of parameter p
  epoch, i,      \* loop indices of train()
  acc, loss, size,  \* the running accumulators
  emitted,       \* the scalars last handed to writer.add_scalar (train)
  dev_f1,        \* F1 returned by the last call of test()
  max_dev_f1,
  best_model,    \* None or the address of the snapshot
  saved,         \* the file written by torch.save in main()
  loaded,        \* the state loaded by submission()
  window,        \* history: the batches added to the accumulators since their last reset
  f1_prev_max    \* history: the greatest F1 of the earlier validations, -1 before the first

trainVars ==
  << pc, args, nbatch, requires_grad, parameters, opt_params, training, heap,
     next_addr, grads, epoch, i, acc, loss, size, emitted, dev_f1,
     max_dev_f1, best_model, saved, loaded, window, f1_prev_max >>

VARIABLES
  sub_pc,        \* position in submission()/predict()
  n_test,        \* number of examples of the test split (data lines of the input file)
  test_bs,       \* batch size of data.test_iter
  preds_list,    \* the list `preds` of predict(): one array per batch
  preds,         \* the array `preds` of submission()
  fin_lines,     \* the lines of the input file, header first
  fin_pos,       \* number of lines of the input file already read
  lineNum,       \* the enumerate counter of line 194
  fout           \* the lines written to the submission file

subVars ==
  << sub_pc, n_test, test_bs, preds_list, preds, fin_lines, fin_pos, lineNum,
     fout >>

VARIABLES
  sswe_pc,       \* position in build_sswe_vectors()
  vocab_itos,    \* TEXT.vocab.itos, the vocabulary of the run
  src_lines,     \* the lines of the source vocabulary file
  emb_rows,      \* number of rows of the source embedding tensor
  src_itos,      \* the list itos built from the file
  stoi,          \* the dict stoi built from the file
  idx,           \* the counter idx
  vectors        \* the list `vectors`

ssweVars ==
  << sswe_pc, vocab_itos, src_lines, emb_rows, src_itos, stoi, idx, vectors >>

vars == << trainVars, subVars, ssweVars >>

(***************************************************************************)
(* Helpers.                                                                *)
(***************************************************************************)
Range(s) == { s[k] : k \in 1..Len(s) }

RECURSIVE SumField(_, _)
SumField(s, f) ==
  IF s = << >> THEN 0 ELSE s[1][f] + SumField(Tail(s), f)

\* a/b = c/d for pairs <<a, b>>, <<c, d>> with positive denominators.
RatEq(x, y) == x[1] * y[2] = y[1] * x[2]

(***************************************************************************)
(* train(): construction, lines 37-63.                                     *)
(***************************************************************************)
\* filter(lambda p: p.requires_grad, model.parameters()): a one-pass iterator.
FilterParameters(rg) ==
  SelectSeq(ModelParams, LAMBDA p : rg[p])

\* Consuming an iterator (list(it), a for loop over it): the elements it
\* still had, and the iterator afterwards, which is exhausted.
Consume(it) == [items |-> it, rest |-> << >>]

\* model.train(): the mode flag afterwards.
model_train == TRUE

\* test() leaves the model in evaluation mode.
test_mode == FALSE

TrainInit ==
  /\ pc = "epoch"
  /\ args \in [max_epoch : 1..MaxEpoch, print_every : 1..MaxEvery,
               validate_every : 1..MaxEvery, norm_limit : NormLimits]
  /\ nbatch \in 1..MaxBatches
  /\ requires_grad \in { rg \in [Range(ModelParams) -> BOOLEAN] : rg["p2"] }
  \* optim.Adam(parameters) turns the iterator into a list: it is consumed
  /\ opt_params = Range(Consume(FilterParameters(requires_grad)).items)
  /\ parameters = Consume(FilterParameters(requires_grad)).rest
  /\ training = model_train
  /\ heap = [a \in {ModelAddr} |-> InitialParams]
  /\ next_addr = 1
  /\ grads = [p \in Range(ModelParams) |-> <<0, 1>>]
  /\ epoch = 0 /\ i = 0
  /\ acc = 0 /\ loss = 0 /\ size = 0
  /\ emitted = NoneVal
  /\ dev_f1 = NoneVal
  /\ max_dev_f1 = 0
  /\ best_model = NoneRef
  /\ saved = NoneVal
  /\ loaded = NoneVal
  /\ window = << >>
  /\ f1_prev_max = -1

\* The state in which train() is not running.
TrainIdle ==
  /\ pc = "idle"
  /\ args = NoneVal /\ nbatch = 0 /\ requires_grad = NoneVal
  /\ parameters = << >> /\ opt_params = {}
  /\ training = FALSE
  /\ heap = [a \in {ModelAddr} |-> InitialParams]
  /\ next_addr = 1
  /\ grads = NoneVal
  /\ epoch = 0 /\ i = 0 /\ acc = 0 /\ loss = 0 /\ size = 0
  /\ emitted = NoneVal /\ dev_f1 = NoneVal /\ max_dev_f1 = 0
  /\ best_model = NoneRef /\ saved = NoneVal /\ loaded = NoneVal
  /\ window = << >> /\ f1_prev_max = -1

(***************************************************************************)
(* One training step, lines 88-105.                                        *)
(***************************************************************************)
\* backward(): every trainable parameter gets a gradient of magnitude g,
\* kept as its square; a frozen parameter has none.
Backward(rg, g) ==
  [p \in Range(ModelParams) |-> IF rg[p] THEN <<g * g, 1>> ELSE <<0, 1>>]

RECURSIVE SumSq(_, _)
SumSq(gr, ps) ==
  IF ps = {} THEN 0
  ELSE LET p == CHOOSE q \in ps : TRUE
       IN gr[p][1] + SumSq(gr, ps \ {p})

\* nn.utils.clip_grad_norm_(it, max_norm): the total norm is taken over the
\* parameters the iterable yields; when it exceeds max_norm each of them is
\* scaled by max_norm / total_norm (squares: by max_norm^2 / total^2).
clip_grad_norm_(it, gr, max_norm) ==
  LET ps    == Range(Consume(it).items)
      total == SumSq(gr, ps)
  IN [ grads |-> [p \in DOMAIN gr |->
                    IF p \in ps /\ total > max_norm * max_norm
                    THEN <<gr[p][1] * max_norm * max_norm, total>>
                    ELSE gr[p]],
       rest  |-> Consume(it).rest ]

TrainStep ==
  /\ pc = "batch"
  /\ \E b \in BatchResults, newp \in ParamVals :
       LET clipped == clip_grad_norm_(parameters,
                                      Backward(requires_grad, b.g),
                                      args.norm_limit)
       IN /\ loss' = loss + b.loss
          /\ grads' = clipped.grads
          /\ parameters' = clipped.rest
          \* optimizer.step() writes the live tensors in place
          /\ heap' = [heap EXCEPT ![ModelAddr] = newp]
          /\ acc' = acc + b.ok
          /\ size' = size + b.n
          /\ window' = Append(window, [epoch |-> epoch, i |-> i, n |-> b.n,
                                       ok |-> b.ok, loss |-> b.loss])
  /\ pc' = "report"
  /\ UNCHANGED << args, nbatch, requires_grad, opt_params, training, next_addr,
                  epoch, i, emitted, dev_f1, max_dev_f1, best_model, saved,
                  loaded, f1_prev_max >>
  /\ UNCHANGED << subVars, ssweVars >>

(***************************************************************************)
(* End of an iteration of the inner loop: the next batch of the epoch, or  *)
(* the end of the epoch.                                                   *)
(***************************************************************************)
Advance ==
  IF i + 1 < nbatch
  THEN /\ pc' = "batch" /\ i' = i + 1 /\ epoch' = epoch
  ELSE /\ pc' = "epoch" /\ i' = i /\ epoch' = epoch + 1

\* Whether the if of line 115 is taken at step i.
ValidationDue == (i + 1) % args.validate_every = 0

\* Whether the if of line 107 is taken at step i.
ReportDue == (i + 1) % args.print_every = 0

\* The mutant of ReportedLoss: the sum divided by the number of steps.
ReportedLoss_Averaged(l) == <<l, args.print_every>>

\* Line 110: the value written as loss/train is the accumulator itself.
ReportedLoss(l) == <<l, 1>>

\* Line 108: acc = acc / size.
ReportedAcc(a, sz) == <<a, sz>>

(***************************************************************************)
(* The reporting step, lines 107-113, and the test of line 115.            *)
(***************************************************************************)
Report ==
  /\ pc = "report"
  /\ IF ReportDue
     THEN /\ emitted' = [loss |-> ReportedLoss(loss),
                         acc  |-> ReportedAcc(acc, size),
                         c    |-> (i + 1) \div args.print_every]
          /\ acc' = 0 /\ loss' = 0 /\ size' = 0
          /\ window' = << >>
     ELSE UNCHANGED << emitted, acc, loss, size, window >>
  /\ IF ValidationDue
     THEN pc' = "validate" /\ UNCHANGED << i, epoch >>
     ELSE Advance
  /\ UNCHANGED << args, nbatch, requires_grad, parameters, opt_params,
                  training, heap, next_addr, grads, dev_f1, max_dev_f1,
                  best_model, saved, loaded, f1_prev_max >>
  /\ UNCHANGED << subVars, ssweVars >>

(***************************************************************************)
(* Validation, lines 115-128.  Of the three values test() returns only the *)
(* F1 decides the snapshot; dev_loss, dev_acc and max_dev_acc are written  *)
(* to the log and take no part in it.                                      *)
(***************************************************************************)
\* Line 117: test() returns the F1 of the validation split.
ValidateCall ==
  /\ pc = "validate"
  /\ \E f \in 0..MaxF1 : dev_f1' = f
  /\ training' = test_mode
  /\ pc' = "update"
  /\ UNCHANGED << args, nbatch, requires_grad, parameters, opt_params, heap,
                  next_addr, grads, epoch, i, acc, loss, size, emitted,
                  max_dev_f1, best_model, saved, loaded, window, f1_prev_max >>
  /\ UNCHANGED << subVars, ssweVars >>

\* The mutant of deepcopy_state_dict: model.state_dict() without the copy,
\* whose tensors share the storage of the live parameters.
state_dict_alias(h, a) == [ref |-> ModelAddr, heap |-> h]

\* copy.deepcopy(model.state_dict()): a new object at address a holding the
\* present contents of the live parameters; the object best_model referred
\* to before is no longer referenced.
deepcopy_state_dict(h, a) ==
  [ref  |-> a,
   heap |-> [x \in {ModelAddr, a} |-> h[ModelAddr]]]

\* The mutant of ModeAfterValidate: the loop does not call model.train().
ModeAfterValidate_Skipped == training

\* Line 128: model.train() after the validation.
ModeAfterValidate == model_train

\* Line 120: dev_f1 > max_dev_f1.
Improves(f, best) == f > best

ValidateUpdate ==
  /\ pc = "update"
  /\ IF Improves(dev_f1, max_dev_f1)
     THEN LET cp == deepcopy_state_dict(heap, next_addr)
          IN /\ max_dev_f1' = dev_f1
             /\ best_model' = cp.ref
             /\ heap' = cp.heap
             /\ next_addr' = next_addr + 1
     ELSE UNCHANGED << max_dev_f1, best_model, heap, next_addr >>
  /\ f1_prev_max' = IF dev_f1 > f1_prev_max THEN dev_f1 ELSE f1_prev_max
  /\ training' = ModeAfterValidate
  /\ Advance
  /\ UNCHANGED << args, nbatch, requires_grad, parameters, opt_params, grads,
                  acc, loss, size, emitted, dev_f1, saved, loaded, window >>
  /\ UNCHANGED << subVars, ssweVars >>

(***************************************************************************)
(* The epoch loop, lines 67-69, and the return of train(), lines 130-131.  *)
(* scheduler.step() changes the learning rate only.                        *)
(***************************************************************************)
EpochStart ==
  /\ pc = "epoch"
  /\ epoch < args.max_epoch
  /\ pc' = "batch"
  /\ i' = 0
  /\ UNCHANGED << args, nbatch, requires_grad, parameters, opt_params,
                  training, heap, next_addr, grads, epoch, acc, loss, size,
                  emitted, dev_f1, max_dev_f1, best_model, saved, loaded,
                  window, f1_prev_max >>
  /\ UNCHANGED << subVars, ssweVars >>

\* The contents of the object a reference points to; None for None.
Deref(h, r) == IF r = NoneRef THEN NoneVal ELSE h[r]

\* main(), lines 270-275: train() returns (best_model, max_dev_f1) and the
\* first is written by torch.save under a name that carries the second.
TrainReturnAndSave ==
  /\ pc = "epoch"
  /\ epoch = args.max_epoch
  /\ saved' = [state |-> Deref(heap, best_model), f1 |-> max_dev_f1]
  /\ pc' = "saved"
  /\ UNCHANGED << args, nbatch, requires_grad, parameters, opt_params,
                  training, heap, next_addr, grads, epoch, i, acc, loss, size,
                  emitted, dev_f1, max_dev_f1, best_model, loaded, window,
                  f1_prev_max >>
  /\ UNCHANGED << subVars, ssweVars >>

\* submission(), line 177: model.load_state_dict(torch.load(file)); it
\* raises when the file does not hold a state dict.
SubmissionLoad ==
  /\ pc = "saved"
  /\ IF saved.state = NoneVal
     THEN pc' = "crashed" /\ UNCHANGED loaded
     ELSE pc' = "loaded" /\ loaded' = saved.state
  /\ UNCHANGED << args, nbatch, requires_grad, parameters, opt_params,
                  training, heap, next_addr, grads, epoch, i, acc, loss, size,
                  emitted, dev_f1, max_dev_f1, best_model, saved, window,
                  f1_prev_max >>
  /\ UNCHANGED << subVars, ssweVars >>

(***************************************************************************)
(* Text.  A line of text is a sequence of symbols; a symbol is a character *)
(* or, in the written file, a whole word (a column name, a label).         *)
(***************************************************************************)
TAB == "\t"
NL == "\n"
SP == " "

\* The characters str.strip() removes.
Whitespace == {SP, TAB, NL}

RECURSIVE lstrip(_)
lstrip(s) ==
  IF s = << >> THEN s
  ELSE IF Head(s) \in Whitespace THEN lstrip(Tail(s)) ELSE s

RECURSIVE rstrip(_)
rstrip(s) ==
  IF s = << >> THEN s
  ELSE IF s[Len(s)] \in Whitespace THEN rstrip(SubSeq(s, 1, Len(s) - 1)) ELSE s

\* str.strip()
strip(s) == rstrip(lstrip(s))

\* str.split(sep): the pieces between the separators, at least one piece.
RECURSIVE split(_, _)
split(s, sep) ==
  IF \A p \in 1..Len(s) : s[p] # sep THEN << s >>
  ELSE LET p == CHOOSE q \in 1..Len(s) :
                  s[q] = sep /\ \A r \in 1..(q - 1) : s[r] # sep
       IN << SubSeq(s, 1, p - 1) >> \o split(SubSeq(s, p + 1, Len(s)), sep)

\* sep.join(pieces)
RECURSIVE join(_, _)
join(sep, pieces) ==
  IF pieces = << >> THEN << >>
  ELSE IF Len(pieces) = 1 THEN pieces[1]
  ELSE pieces[1] \o << sep >> \o join(sep, Tail(pieces))

\* The mutant of first_four: one column short.
first_three(cols) == SubSeq(cols, 1, IF Len(cols) < 3 THEN Len(cols) ELSE 3)

\* The slice [:4] of line 195.
first_four(cols) == SubSeq(cols, 1, IF Len(cols) < 4 THEN Len(cols) ELSE 4)

\* Line 191: the header row of the submission file.
HeaderRow == join(TAB, << <<"id">>, <<"turn1">>, <<"turn2">>, <<"turn3">>, <<"label">> >>) \o << NL >>

\* data.LABEL.vocab.itos: index -> label string (indices from 0).
LabelVocab == << "others", "happy", "sad" >>

itos(j) == LabelVocab[j + 1]

\* Lines 195-196: what is written for one input line and its prediction.
DataRow(line, pred) ==
  join(TAB, first_four(split(strip(line), TAB))) \o << TAB >>
    \o << itos(pred) >> \o << NL >>

(***************************************************************************)
(* The input file ./data/raw/devwithoutlabels.txt.                         *)
(***************************************************************************)
Letters == << "a", "b", "c", "d", "e", "f", "g" >>

\* A data line of ncols one-letter columns, between the text lead and the
\* text trail, ended by its newline.
DataLine(ncols, lead, trail) ==
  lead \o join(TAB, [j \in 1..ncols |-> << Letters[j] >>]) \o trail \o << NL >>

\* Data lines: three to MaxCols columns without surrounding whitespace; four
\* columns after a leading blank; four columns and a trailing blank; and
\* four columns of which the last is empty (the line ends with a tab).
DataLines ==
  { DataLine(nc, << >>, << >>) : nc \in 3..MaxCols }
    \cup { DataLine(4, << SP >>, << >>),
           DataLine(4, << >>, << SP >>),
           DataLine(3, << >>, << TAB >>) }

HeaderLine == join(TAB, << <<"id">>, <<"turn1">>, <<"turn2">>, <<"turn3">> >>) \o << NL >>

(***************************************************************************)
(* predict(), lines 134-161.                                               *)
(***************************************************************************)
\* Batch sizes of the test iterator.
TestBatchSizes == {1, 2}

Classes == 0..(Len(LabelVocab) - 1)

\* The class scores of one example.
LogitRows == [Classes -> 0..MaxLogit]

RECURSIVE Pow2(_)
Pow2(k) == IF k = 0 THEN 1 ELSE 2 * Pow2(k - 1)

RECURSIVE SumPow2(_, _)
SumPow2(row, cs) ==
  IF cs = {} THEN 0
  ELSE LET c == CHOOSE x \in cs : TRUE
       IN Pow2(row[c]) + SumPow2(row, cs \ {c})

\* nn.Softmax(dim=1) on one row: b^x_j / sum_k b^x_k, with base 2 in place
\* of e; each entry is the pair <<numerator, denominator>>.
softmax(row) == [c \in Classes |-> << Pow2(row[c]), SumPow2(row, Classes) >>]

\* x < y for pairs with positive denominators.
RatLess(x, y) == x[1] * y[2] < y[1] * x[2]

\* The mutant of argmax: the index of the least entry.
argmin(row) ==
  CHOOSE j \in Classes :
    /\ \A k \in Classes : ~RatLess(row[k], row[j])
    /\ \A k \in Classes : k < j => RatLess(row[j], row[k])

\* numpy argmax along axis 1, for one row: the first index of the greatest
\* entry.
argmax(row) ==
  CHOOSE j \in Classes :
    /\ \A k \in Classes : ~RatLess(row[j], row[k])
    /\ \A k \in Classes : k < j => RatLess(row[k], row[j])

\* Number of examples of batch number b (from 0) of the test iterator.
BatchLen(b) ==
  IF (b + 1) * test_bs <= n_test THEN test_bs ELSE n_test - b * test_bs

\* np.concatenate(list of arrays)
RECURSIVE concatenate(_)
concatenate(arrays) ==
  IF arrays = << >> THEN << >> ELSE Head(arrays) \o concatenate(Tail(arrays))

SubInit ==
  /\ sub_pc = "predict"
  /\ n_test \in 1..MaxTest
  /\ test_bs \in TestBatchSizes
  /\ preds_list = << >>
  /\ preds = << >>
  /\ fin_lines = << >>
  /\ fin_pos = 0
  /\ lineNum = 0
  /\ fout = << >>

\* The state in which submission() is not running.
SubIdle ==
  /\ sub_pc = "idle"
  /\ n_test = 0 /\ test_bs = 0
  /\ preds_list = << >> /\ preds = << >>
  /\ fin_lines = << >> /\ fin_pos = 0 /\ lineNum = 0 /\ fout = << >>

\* Lines 139-158: one batch of the test iterator.
PredictBatch ==
  /\ sub_pc = "predict"
  /\ Len(concatenate(preds_list)) < n_test
  /\ \E logits \in [1..BatchLen(Len(preds_list)) -> LogitRows] :
       preds_list' = Append(preds_list,
                            [r \in DOMAIN logits |-> softmax(logits[r])])
  /\ UNCHANGED << sub_pc, n_test, test_bs, preds, fin_lines, fin_pos,
                  lineNum, fout >>
  /\ UNCHANGED << trainVars, ssweVars >>

\* Lines 159-161 and 179: the iterator is exhausted; predict() returns the
\* concatenation.
PredictReturn ==
  /\ sub_pc = "predict"
  /\ Len(concatenate(preds_list)) = n_test
  /\ preds' = concatenate(preds_list)
  /\ sub_pc' = "predicted"
  /\ UNCHANGED << n_test, test_bs, preds_list, fin_lines, fin_pos, lineNum,
                  fout >>
  /\ UNCHANGED << trainVars, ssweVars >>

\* Line 183: preds = preds.argmax(axis=1).
ArgmaxRows ==
  /\ sub_pc = "predicted"
  /\ preds' = [k \in DOMAIN preds |-> argmax(preds[k])]
  /\ preds_list' = << >>
  /\ sub_pc' = "open"
  /\ UNCHANGED << n_test, test_bs, fin_lines, fin_pos, lineNum, fout >>
  /\ UNCHANGED << trainVars, ssweVars >>

\* Line 193: fin.readline() reads the header line of the input.
SkipHeader == 1

\* Lines 190-193: the header row is written, the input opened and its
\* header line read.
OpenFiles ==
  /\ sub_pc = "open"
  /\ fout' = << HeaderRow >>
  /\ \E data \in [1..n_test -> DataLines] :
       fin_lines' = << HeaderLine >> \o data
  /\ fin_pos' = SkipHeader
  /\ lineNum' = 0
  /\ sub_pc' = "rows"
  /\ UNCHANGED << n_test, test_bs, preds_list, preds >>
  /\ UNCHANGED << trainVars, ssweVars >>

\* Lines 194-196: one iteration of the loop over the remaining lines.
WriteRow ==
  /\ sub_pc = "rows"
  /\ fin_pos < Len(fin_lines)
  /\ lineNum < Len(preds)
  /\ fout' = Append(fout, DataRow(fin_lines[fin_pos + 1], preds[lineNum + 1]))
  /\ fin_pos' = fin_pos + 1
  /\ lineNum' = lineNum + 1
  /\ UNCHANGED << sub_pc, n_test, test_bs, preds_list, preds, fin_lines >>
  /\ UNCHANGED << trainVars, ssweVars >>

\* The input is exhausted: both files are closed.
CloseFiles ==
  /\ sub_pc = "rows"
  /\ fin_pos = Len(fin_lines)
  /\ sub_pc' = "done"
  /\ UNCHANGED << n_test, test_bs, preds_list, preds, fin_lines, fin_pos,
                  lineNum, fout >>
  /\ UNCHANGED << trainVars, ssweVars >>

SubNext ==
  \/ PredictBatch
  \/ PredictReturn
  \/ ArgmaxRows
  \/ OpenFiles
  \/ WriteRow
  \/ CloseFiles

(***************************************************************************)
(* build_sswe_vectors(), lines 199-231.                                    *)
(***************************************************************************)
\* Tokens, as texts of one symbol.
Words == { <<"<unk>">>, <<"the">>, <<"cat">> }

\* The lines of data/sswe/Twitter_vocab.txt: a token and its newline, with
\* or without a blank before the token.
VocabLines ==
  { w \o << NL >> : w \in Words } \cup { << SP >> \o w \o << NL >> : w \in Words }

\* Sequences over S of length lo..hi.
SeqsOf(S, lo, hi) == UNION { [1..n -> S] : n \in lo..hi }

\* Row r (from 0) of the tensor loaded from vector_path.
EmbeddingRow(r) == << "row", r >>

\* Line 226: the index used for a token the source vocabulary lacks.
UnkIndex == 0

\* The mutant of Lookup: a missing token falls back to the last row.
Lookup_LastRow(st, tok, rows) == IF tok \in DOMAIN st THEN st[tok] ELSE rows - 1

\* Lines 223-226: stoi[token], and the <unk> index when that raises.
Lookup(st, tok, rows) == IF tok \in DOMAIN st THEN st[tok] ELSE UnkIndex

SsweInit ==
  /\ sswe_pc = "read"
  /\ vocab_itos \in { v \in SeqsOf(Words, 1, MaxVocab) :
                        \A a, b \in 1..Len(v) : a # b => v[a] # v[b] }
  /\ src_lines \in SeqsOf(VocabLines, 1, MaxSrc)
  \* the tensor has a row for every line of the vocabulary file
  /\ emb_rows = Len(src_lines)
  /\ src_itos = << >>
  /\ stoi = << >>
  /\ idx = 0
  /\ vectors = << >>

\* The state in which build_sswe_vectors() is not running.
SsweIdle ==
  /\ sswe_pc = "idle"
  /\ vocab_itos = << >> /\ src_lines = << >> /\ emb_rows = 0
  /\ src_itos = << >> /\ stoi = << >> /\ idx = 0 /\ vectors = << >>

\* Lines 214-218: one line of the vocabulary file.
ReadVocabLine ==
  /\ sswe_pc = "read"
  /\ idx < Len(src_lines)
  /\ LET line == strip(src_lines[idx + 1])
     IN /\ src_itos' = Append(src_itos, line)
        /\ stoi' = [t \in DOMAIN stoi \cup {line} |->
                      IF t = line THEN idx ELSE stoi[t]]
  /\ idx' = idx + 1
  /\ UNCHANGED << sswe_pc, vocab_itos, src_lines, emb_rows, vectors >>
  /\ UNCHANGED << trainVars, subVars >>

\* The file is exhausted: the loop of line 222 starts.
VocabRead ==
  /\ sswe_pc = "read"
  /\ idx = Len(src_lines)
  /\ sswe_pc' = "rows"
  /\ UNCHANGED << vocab_itos, src_lines, emb_rows, src_itos, stoi, idx, vectors >>
  /\ UNCHANGED << trainVars, subVars >>

\* Lines 222-227: one vocabulary index; embedding[index] raises when the
\* tensor has no such row, and that is not caught.
AppendVector ==
  /\ sswe_pc = "rows"
  /\ Len(vectors) < Len(vocab_itos)
  /\ LET index == Lookup(stoi, vocab_itos[Len(vectors) + 1], emb_rows)
     IN IF index < emb_rows
        THEN vectors' = Append(vectors, EmbeddingRow(index)) /\ UNCHANGED sswe_pc
        ELSE sswe_pc' = "error" /\ UNCHANGED vectors
  /\ UNCHANGED << vocab_itos, src_lines, emb_rows, src_itos, stoi, idx >>
  /\ UNCHANGED << trainVars, subVars >>

\* Lines 229-231: torch.stack and torch.save.
StackAndSave ==
  /\ sswe_pc = "rows"
  /\ Len(vectors) = Len(vocab_itos)
  /\ sswe_pc' = "saved"
  /\ UNCHANGED << vocab_itos, src_lines, emb_rows, src_itos, stoi, idx, vectors >>
  /\ UNCHANGED << trainVars, subVars >>

SsweNext ==
  \/ ReadVocabLine
  \/ VocabRead
  \/ AppendVector
  \/ StackAndSave

(***************************************************************************)
(* The specifications: one per entry point.                                *)
(***************************************************************************)
InitSubmission == TrainIdle /\ SubInit /\ SsweIdle

SpecSubmission == InitSubmission /\ [][SubNext]_vars

InitSswe == TrainIdle /\ SubIdle /\ SsweInit

SpecSswe == InitSswe /\ [][SsweNext]_vars

Next ==
  \/ EpochStart
  \/ TrainStep
  \/ Report
  \/ ValidateCall
  \/ ValidateUpdate
  \/ TrainReturnAndSave
  \/ SubmissionLoad

Init == TrainInit /\ SubIdle /\ SsweIdle

Spec == Init /\ [][Next]_vars

(***************************************************************************)
(* Properties of the training loop.                                        *)
(***************************************************************************)
\* p/q + r/s.
RatAdd(x, y) == <<x[1] * y[2] + y[1] * x[2], x[2] * y[2]>>

RECURSIVE RatSum(_, _)
RatSum(gr, ps) ==
  IF ps = {} THEN <<0, 1>>
  ELSE LET p == CHOOSE q \in ps : TRUE
       IN RatAdd(gr[p], RatSum(gr, ps \ {p}))

\* The squared gradient norm over the parameters ps is at most limit^2.
NormWithin(gr, ps, limit) ==
  RatSum(gr, ps)[1] <= limit * limit * RatSum(gr, ps)[2]

\* The step is a validation that takes the branch of line 120.
ImprovingUpdate == pc = "update" /\ dev_f1 > max_dev_f1

\* C1 (as claimed): at every validation the snapshot is replaced if and only
\* if the new F1 is strictly greater than every F1 of an earlier validation
\* of the run (f1_prev_max is their maximum, -1 when there was none).
C1_SnapshotIffExceedsAllEarlier ==
  [][ pc = "update" =>
        ((best_model' # best_model) <=> (dev_f1 > f1_prev_max)) ]_vars

\* C2 (as claimed): at every reporting point the accumulators hold exactly
\* the print_every batches of the window, all of the current epoch, and the
\* accumulators are zero at the first step of every epoch.
C2_WindowOfCurrentEpochOnly ==
  /\ (pc = "report" /\ ReportDue) =>
       /\ Len(window) = args.print_every
       /\ \A k \in 1..Len(window) : window[k].epoch = epoch
       /\ acc = SumField(window, "ok")
       /\ size = SumField(window, "n")
       /\ loss = SumField(window, "loss")
  /\ (pc = "batch" /\ i = 0) => (acc = 0 /\ size = 0 /\ loss = 0)

\* C3 (as claimed): after the clipping call of a training step the gradient
\* norm over the trainable parameters, those handed to the optimizer, does
\* not exceed args.norm_limit.
C3_ClippedNormWithinLimit ==
  pc = "report" => NormWithin(grads, opt_params, args.norm_limit)

\* C7 (as claimed): whenever training completes, the saved artifact is a
\* parameter state, the snapshot held after the last validation, paired with
\* the best F1, and submission() loads it.
C7_ArtifactIsSnapshot ==
  pc \in {"saved", "loaded", "crashed"} =>
    /\ saved.state \in ParamVals
    /\ saved.state = Deref(heap, best_model)
    /\ saved.f1 = max_dev_f1
    /\ pc # "crashed"
    /\ pc = "loaded" => loaded = saved.state

\* C8: a validation that improves F1 makes the snapshot equal to the
\* parameters of that moment, and every other step (training steps, later
\* validations that do not improve) leaves the snapshot and its contents
\* as they were.
C8_SnapshotFrozen ==
  [][ /\ ImprovingUpdate => Deref(heap', best_model') = heap[ModelAddr]
      /\ (best_model # NoneRef /\ ~ImprovingUpdate) =>
           (best_model' = best_model /\ heap'[best_model'] = heap[best_model])
    ]_vars

\* C8 witness: a snapshot exists and training has since moved the live
\* parameters away from it.
C8_Witness ==
  /\ best_model # NoneRef
  /\ heap[best_model] # heap[ModelAddr]

\* C9: every training forward pass (a training step is about to run) finds
\* the model in training mode.
C9_ForwardInTrainingMode == pc = "batch" => training = TRUE

\* C9 witness: a training step is about to run after a validation that did
\* not improve F1, which had left the model in evaluation mode.
C9_Witness ==
  /\ pc = "batch"
  /\ f1_prev_max >= 0
  /\ dev_f1 < max_dev_f1
  /\ training = TRUE

\* C10 (as claimed): the loss/train value emitted at a reporting point is
\* the accumulated loss divided by the number of accumulated steps.
C10_EmitsAverageLoss ==
  [][ (pc = "report" /\ ReportDue) =>
        RatEq(emitted'.loss, <<SumField(window, "loss"), Len(window)>>)
    ]_vars

\* C10 (amended): the loss/train value emitted at a reporting point is the
\* sum of the losses of the batches accumulated since the last reset, not
\* divided; acc/train is their correct count over their sample count; and
\* the three accumulators are zero right after the emission.
C10_EmitsLossSumAndResets ==
  [][ (pc = "report" /\ ReportDue) =>
        /\ RatEq(emitted'.loss, <<SumField(window, "loss"), 1>>)
        /\ RatEq(emitted'.acc,
                 <<SumField(window, "ok"), SumField(window, "n")>>)
        /\ acc' = 0 /\ loss' = 0 /\ size' = 0
    ]_vars

\* C10 witness: a reporting point with several batches accumulated.
C10_Witness ==
  /\ pc = "report" /\ ReportDue
  /\ Len(window) >= 2
  /\ loss > 0

(***************************************************************************)
(* Properties of the submission writer.  The columns of a line are read    *)
(* here from the positions of its tabs, not with split and strip.          *)
(***************************************************************************)
TabsIn(s) == { p \in 1..Len(s) : s[p] = TAB }

\* Position of the j-th tab of s; 0 for j = 0 and Len(s) + 1 past the last.
TabAt(s, j) ==
  IF j = 0 THEN 0
  ELSE IF j > Cardinality(TabsIn(s)) THEN Len(s) + 1
  ELSE CHOOSE p \in TabsIn(s) :
         Cardinality({ q \in TabsIn(s) : q < p }) = j - 1

\* The tab-separated columns of s.
ColumnsOf(s) ==
  [j \in 1..(Cardinality(TabsIn(s)) + 1) |->
     SubSeq(s, TabAt(s, j - 1) + 1, TabAt(s, j) - 1)]

\* The line without its final newline.
Content(line) ==
  IF line # << >> /\ line[Len(line)] = NL
  THEN SubSeq(line, 1, Len(line) - 1) ELSE line

\* The line without its leading and trailing whitespace.
Trimmed(line) ==
  LET solid == { p \in 1..Len(line) : line[p] \notin Whitespace }
  IN IF solid = {} THEN << >>
     ELSE SubSeq(line, CHOOSE p \in solid : \A q \in solid : p <= q,
                       CHOOSE p \in solid : \A q \in solid : q <= p)

UpToFour(cols) == [j \in 1..(IF Len(cols) < 4 THEN Len(cols) ELSE 4) |-> cols[j]]

\* The columns of a written row before its label column, and its label.
DataColumns(row) ==
  SubSeq(ColumnsOf(Content(row)), 1, Len(ColumnsOf(Content(row))) - 1)

LabelColumn(row) == ColumnsOf(Content(row))[Len(ColumnsOf(Content(row)))]

\* The file written so far is the header row followed by one row per input
\* data line read, in input order, the k-th carrying the columns expected[k];
\* once done, every data line has its row.
RowsFollowInput(expected) ==
  sub_pc \in {"rows", "done"} =>
    /\ Len(fout) = 1 + lineNum
    /\ fout[1] = HeaderRow
    /\ \A k \in 1..lineNum : DataColumns(fout[k + 1]) = expected[k]
    /\ sub_pc = "done" => lineNum = Len(fin_lines) - 1

ColumnsAsGiven(line) == UpToFour(ColumnsOf(Content(line)))

ColumnsAfterStrip(line) == UpToFour(ColumnsOf(Trimmed(line)))

\* C4 (as claimed): one header row, then exactly one row per input data
\* line in input order, the k-th carrying the first four columns of the
\* k-th input data line.
C4_RowsCarryFirstFourColumns ==
  RowsFollowInput([k \in 1..lineNum |-> ColumnsAsGiven(fin_lines[k + 1])])

\* C4 (amended): one header row, then exactly one row per input data line in
\* input order, the k-th carrying the first four tab-separated columns of
\* the k-th input data line after the line's leading and trailing
\* whitespace is stripped.
C4_RowsCarryStrippedColumns ==
  RowsFollowInput([k \in 1..lineNum |-> ColumnsAfterStrip(fin_lines[k + 1])])

\* C4 witness: a finished file of at least two rows whose input has a line
\* of more than four columns and a line with surrounding whitespace.
C4_Witness ==
  /\ sub_pc = "done"
  /\ lineNum >= 2
  /\ \E k \in 2..Len(fin_lines) : Len(ColumnsOf(Content(fin_lines[k]))) > 4
  /\ \E k \in 2..Len(fin_lines) : Trimmed(fin_lines[k]) # Content(fin_lines[k])

\* j is an index of a greatest entry of the row of normalized scores.
IsMaxIndex(row, j) ==
  /\ j \in Classes
  /\ \A k \in Classes : row[k][1] * row[j][2] <= row[j][1] * row[k][2]

\* C5: the arg-max step turns the k-th prediction of predict() into an
\* index of its greatest softmax-normalized score; the array is not changed
\* afterwards; and the row written for the k-th data line carries the label
\* string data.LABEL.vocab.itos has at that index.
C5_LabelIsArgmaxLabel ==
  [][ /\ sub_pc = "predicted" =>
           \A k \in DOMAIN preds : IsMaxIndex(preds[k], preds'[k])
      /\ sub_pc = "open" => preds' = preds
      /\ (sub_pc = "rows" /\ fin_pos < Len(fin_lines)) =>
           /\ preds' = preds
           /\ Len(fout') = lineNum + 2
           /\ LabelColumn(fout'[Len(fout')]) = << LabelVocab[preds[lineNum + 1] + 1] >>
    ]_vars

\* C5 witness: a finished file whose rows carry different labels, none of
\* them the first of the vocabulary.
C5_Witness ==
  /\ sub_pc = "done"
  /\ lineNum >= 2
  /\ LabelColumn(fout[2]) = << "sad" >>
  /\ LabelColumn(fout[3]) = << "happy" >>

(***************************************************************************)
(* Properties of the embedding alignment.                                  *)
(***************************************************************************)
\* The lines (from 1) of the source vocabulary file that hold the token.
Occurrences(tok) ==
  { j \in 1..Len(src_lines) : Trimmed(src_lines[j]) = tok }

====
